---- MODULE Spec2Model ----
(***************************************************************************)
(* Model of scripts/excel_compare.py: class ExcelCompare.                  *)
(*                                                                         *)
(* A DataFrame is a record                                                 *)
(*   columns : sequence of column labels (order matters),                  *)
(*   name    : the name of the index ("" when the index has no name),      *)
(*   index   : sequence of row labels, one per row,                        *)
(*   rows    : sequence of rows, each a function from column label to cell.*)
(* A workbook (the dict returned by pd.read_excel(sheet_name=None)) is a   *)
(* sequence of [name, df] records in sheet order, with distinct names.     *)
(***************************************************************************)
EXTENDS Integers, Sequences, FiniteSets, TLC

VARIABLES old_excel, new_excel, index_name, other_ref_cols, ignored_cols,
          op, arg, err, excel_diff, written

vars == <<old_excel, new_excel, index_name, other_ref_cols, ignored_cols,
          op, arg, err, excel_diff, written>>

\* ------------------------------------------------------------------ bounds
MaxRows == 2
MaxSheets == 2

Keys == {1, 2}
Vals == {7, 8}
KeyCol == "id"
DefaultIndex == "_index_"
OldStem == "old"
NewStem == "new"

\* ----------------------------------------------------------------- helpers
Range(s) == {s[i] : i \in 1..Len(s)}

Count(s, k) == Cardinality({i \in 1..Len(s) : s[i] = k})

RECURSIVE Repeat(_, _)
Repeat(x, n) == IF n = 0 THEN <<>> ELSE <<x>> \o Repeat(x, n - 1)

RECURSIVE SortedSeq(_)
SortedSeq(S) ==
    IF S = {} THEN <<>>
    ELSE LET m == CHOOSE x \in S : \A y \in S : x <= y
         IN  <<m>> \o SortedSeq(S \ {m})

RECURSIVE Concat(_)
Concat(ss) == IF ss = <<>> THEN <<>> ELSE Head(ss) \o Concat(Tail(ss))

\* --------------------------------------------------------------- DataFrame
DataFrame(columns, name, index, rows) ==
    [columns |-> columns, name |-> name, index |-> index, rows |-> rows]

\* pd.read_excel: a RangeIndex 0..n-1 without a name
ReadExcel(columns, rows) ==
    DataFrame(columns, "", [i \in 1..Len(rows) |-> i - 1], rows)

\* df.empty
Empty(df) == Len(df.index) = 0 \/ Len(df.columns) = 0

\* df.index.set_names(name, inplace=True)
SetNames(df, name) == [df EXCEPT !.name = name]

\* df.set_index(col, inplace=True): KeyError when col is not a column
SetIndex(df, col) ==
    IF col \notin Range(df.columns)
    THEN [err |-> "KeyError", df |-> df]
    ELSE [err |-> "",
          df  |-> DataFrame(SelectSeq(df.columns, LAMBDA c : c # col),
                            col,
                            [i \in 1..Len(df.rows) |-> df.rows[i][col]],
                            [i \in 1..Len(df.rows) |->
                                [c \in DOMAIN df.rows[i] \ {col} |-> df.rows[i][c]]])]

\* df.drop(cols, inplace=True, axis=1)
Drop(df, cols) ==
    [df EXCEPT !.columns = SelectSeq(df.columns, LAMBDA c : c \notin cols),
               !.rows = [i \in 1..Len(df.rows) |->
                            [c \in DOMAIN df.rows[i] \ cols |-> df.rows[i][c]]]]

\* df.loc[labels]: for every label, in the order given, all rows of df that
\* carry it (labels are drawn from the joined index, so each one is present)
Loc(df, labels) ==
    LET pos == Concat([n \in 1..Len(labels) |->
                   SelectSeq([i \in 1..Len(df.index) |-> i],
                             LAMBDA i : df.index[i] = labels[n])])
    IN  DataFrame(df.columns, df.name,
                  [n \in 1..Len(pos) |-> df.index[pos[n]]],
                  [n \in 1..Len(pos) |-> df.rows[pos[n]]])

\* ------------------------------------- delete_ignored_and_conflicting_cols
\* the symmetric difference alone, without the union with ignored_cols
ColsToDeleteNoUnion(df1, df2, ignored) ==
    (Range(df1.columns) \ Range(df2.columns)) \cup
    (Range(df2.columns) \ Range(df1.columns))

\* df1.columns.symmetric_difference(df2.columns).union(self.ignored_cols)
ColsToDelete(df1, df2, ignored) ==
    ((Range(df1.columns) \ Range(df2.columns)) \cup
     (Range(df2.columns) \ Range(df1.columns))) \cup Range(ignored)

\* both frames are changed in place; the pair <<df1, df2>> after the call
DeleteIgnoredAndConflictingCols(df1, df2, ignored) ==
    LET cols_to_delete == ColsToDelete(df1, df2, ignored)
    IN  <<Drop(df1, Range(df1.columns) \cap cols_to_delete),
          Drop(df2, Range(df2.columns) \cap cols_to_delete)>>

\* ---------------------------------------------------------------- pd.merge
\* the same join with how="left": the keys of df_new alone are lost
MergeLeft(df_old, df_new) ==
    LET keys == SortedSeq(Range(df_old.index))
    IN  Concat([i \in 1..Len(keys) |->
            LET k == keys[i]
                m == Count(df_old.index, k)
                n == Count(df_new.index, k)
            IN  IF n > 0
                THEN Repeat([key |-> k, _merge |-> "both"], m * n)
                ELSE Repeat([key |-> k, _merge |-> "left_only"], m)])

\* pd.merge(df_old, df_new, on=index_name, how="outer", indicator=True): the
\* index of the result (the join key, restored as index level) and its _merge
\* column.  Keys are sorted; a key with m rows on the left and n rows on the
\* right yields m*n rows tagged "both".
Merge(df_old, df_new) ==
    LET keys == SortedSeq(Range(df_old.index) \cup Range(df_new.index))
    IN  Concat([i \in 1..Len(keys) |->
            LET k == keys[i]
                m == Count(df_old.index, k)
                n == Count(df_new.index, k)
            IN  IF m > 0 /\ n > 0
                THEN Repeat([key |-> k, _merge |-> "both"], m * n)
                ELSE IF m > 0
                     THEN Repeat([key |-> k, _merge |-> "left_only"], m)
                     ELSE Repeat([key |-> k, _merge |-> "right_only"], n)])

\* df_merged.index[df_merged["_merge"] == tag]
IndexWhere(df_merged, tag) ==
    LET sel == SelectSeq(df_merged, LAMBDA r : r._merge = tag)
    IN  [i \in 1..Len(sel) |-> sel[i].key]

\* ------------------------------------------------------- DataFrame.compare
\* A cell of the result is <<v>> for a value and <<>> for the blank that
\* fillna("") writes.
Blank == <<>>

Differs(a, b, i, c) == a.rows[i][c] # b.rows[i][c]

\* DataFrame._indexed_same: both axes equal, element by element
SameLabels(a, b) == a.columns = b.columns /\ a.index = b.index

\* the same comparison with keep_shape=True: equal rows and columns stay
CompareKeepShape(a, b, self_name, other_name) ==
    LET cols == a.columns
        rws  == [i \in 1..Len(a.index) |-> i]
        columns == Concat([n \in 1..Len(cols) |->
                       << <<cols[n], self_name>>, <<cols[n], other_name>> >>])
    IN  DataFrame(columns, a.name,
                  [n \in 1..Len(rws) |-> a.index[rws[n]]],
                  [n \in 1..Len(rws) |->
                      [cl \in Range(columns) |->
                          IF Differs(a, b, rws[n], cl[1])
                          THEN IF cl[2] = self_name
                               THEN <<a.rows[rws[n]][cl[1]]>>
                               ELSE <<b.rows[rws[n]][cl[1]]>>
                          ELSE Blank]])

\* a.compare(b, result_names=(self_name, other_name)).fillna(""): only the
\* columns and the rows with a difference are kept (keep_shape=False)
Compare(a, b, self_name, other_name) ==
    LET cols == SelectSeq(a.columns,
                    LAMBDA c : \E i \in 1..Len(a.index) : Differs(a, b, i, c))
        rws  == SelectSeq([i \in 1..Len(a.index) |-> i],
                    LAMBDA i : \E c \in Range(a.columns) : Differs(a, b, i, c))
        columns == Concat([n \in 1..Len(cols) |->
                       << <<cols[n], self_name>>, <<cols[n], other_name>> >>])
    IN  DataFrame(columns, a.name,
                  [n \in 1..Len(rws) |-> a.index[rws[n]]],
                  [n \in 1..Len(rws) |->
                      [cl \in Range(columns) |->
                          IF Differs(a, b, rws[n], cl[1])
                          THEN IF cl[2] = self_name
                               THEN <<a.rows[rws[n]][cl[1]]>>
                               ELSE <<b.rows[rws[n]][cl[1]]>>
                          ELSE Blank]])

\* ---------------------------------------------------------- get_sheet_diff
NoFrame == DataFrame(<<>>, "", <<>>, <<>>)

\* the ValueError of compare as it is without the try/except of lines 80-86
UnwrappedValueError == "ValueError: Can only compare identically-labeled"

\* raise ValueError("Possibly duplicate index") from e
DuplicateIndex == "ValueError: Possibly duplicate index"

\* df_old_both.loc[df_cell_cmp.index, other_ref_cols] with the columns
\* relabelled (ref_col, "-")
RefFrame(df_old_both, df_cell_cmp, refs) ==
    LET sel == Loc(df_old_both, df_cell_cmp.index)
        columns == [n \in 1..Len(refs) |-> <<refs[n], "-">>]
    IN  DataFrame(columns, sel.name, sel.index,
                  [i \in 1..Len(sel.rows) |->
                      [cl \in Range(columns) |-> <<sel.rows[i][cl[1]]>>]])

\* pd.concat([df_ref, df_cell_cmp], axis=1) for two frames with equal indexes
ConcatColumns(df_ref, df_cell_cmp) ==
    DataFrame(df_ref.columns \o df_cell_cmp.columns, df_cell_cmp.name,
              df_cell_cmp.index,
              [i \in 1..Len(df_cell_cmp.rows) |->
                  [cl \in Range(df_ref.columns) \cup Range(df_cell_cmp.columns) |->
                      IF cl \in Range(df_ref.columns)
                      THEN df_ref.rows[i][cl]
                      ELSE df_cell_cmp.rows[i][cl]]])

\* get_sheet_diff(df_old, df_new) for two frames whose index is named
\* index_name (as get_excel_diff leaves them).  The result carries the
\* exception raised (err), the two frames as the call leaves them (they are
\* changed in place) and, when it returns, the three tables.  Each operator
\* below is one statement of the method, given the values of the locals
\* computed so far.
Raise(e, df_old, df_new) ==
    [err |-> e, df_old |-> df_old, df_new |-> df_new,
     changed |-> NoFrame, added |-> NoFrame, deleted |-> NoFrame]

\* lines 95-102
Return(df_old, df_new, df_merged, df_cell_cmp) ==
    [err |-> "", df_old |-> df_old, df_new |-> df_new,
     changed |-> df_cell_cmp,
     added   |-> Loc(df_new, IndexWhere(df_merged, "right_only")),
     deleted |-> Loc(df_old, IndexWhere(df_merged, "left_only"))]

\* line 93, for the df_ref of lines 90-92
AddRefCols(df_old, df_new, df_merged, df_ref, df_cell_cmp) ==
    IF df_ref.index # df_cell_cmp.index
    THEN Raise("InvalidIndexError", df_old, df_new)
    ELSE Return(df_old, df_new, df_merged, ConcatColumns(df_ref, df_cell_cmp))

\* lines 88-102, for the df_cell_cmp of lines 81-84
Compared(df_old, df_new, df_merged, df_old_both, df_cell_cmp, refs) ==
    IF refs # <<>> /\ ~Empty(df_cell_cmp)
    THEN IF ~(Range(refs) \subseteq Range(df_old_both.columns))
         THEN Raise("KeyError", df_old, df_new)
         ELSE AddRefCols(df_old, df_new, df_merged,
                         RefFrame(df_old_both, df_cell_cmp, refs), df_cell_cmp)
    ELSE Return(df_old, df_new, df_merged, df_cell_cmp)

\* lines 80-102, for the selections of lines 78-79
Selected(df_old, df_new, df_merged, df_old_both, df_new_both, refs) ==
    IF ~SameLabels(df_old_both, df_new_both)
    THEN Raise(DuplicateIndex, df_old, df_new)
    ELSE Compared(df_old, df_new, df_merged, df_old_both,
                  Compare(df_old_both, df_new_both, OldStem, NewStem), refs)

\* lines 76-102, for the df_merged of lines 72-74
Merged(df_old, df_new, df_merged, df_idx_in_both, refs) ==
    Selected(df_old, df_new, df_merged,
             Loc(df_old, df_idx_in_both), Loc(df_new, df_idx_in_both), refs)

\* lines 72-102, for the frames as line 70 leaves them
Reconciled(df_old, df_new, df_merged, refs) ==
    Merged(df_old, df_new, df_merged, IndexWhere(df_merged, "both"), refs)

AfterDelete(reconciled, refs) ==
    Reconciled(reconciled[1], reconciled[2],
               Merge(reconciled[1], reconciled[2]), refs)

GetSheetDiff(df_old, df_new, ignored, refs) ==
    AfterDelete(DeleteIgnoredAndConflictingCols(df_old, df_new, ignored), refs)

\* ---------------------------------------------------------- get_excel_diff
\* the sheet at the same position, as zip(old, new) of temp_compare pairs them
NewSheetPosByPosition(old_wb, new_wb, i) ==
    IF i <= Len(new_wb) THEN i ELSE 0

\* self.new_excel[sheet_name] for the i-th sheet name of old_excel: the
\* position of the sheet of that name in new_excel, 0 when there is none
NewSheetPos(old_wb, new_wb, i) ==
    IF \E j \in 1..Len(new_wb) : new_wb[j].name = old_wb[i].name
    THEN CHOOSE j \in 1..Len(new_wb) : new_wb[j].name = old_wb[i].name
    ELSE 0

\* lines 48-57: the key of one frame
KeySetup(df, idx_name) ==
    IF idx_name = DefaultIndex
    THEN [err |-> "", df |-> SetNames(df, idx_name)]
    ELSE SetIndex(df, idx_name)

\* The loop of get_excel_diff from the i-th sheet of old_excel on.  st holds
\* the two workbooks, the dict built so far and the exception raised; an
\* exception leaves the workbooks as changed up to that statement.
RECURSIVE DiffFrom(_, _, _, _, _)

\* lines 59-63: d is the result of get_sheet_diff for sheet i of old_excel
\* and sheet j of new_excel
SheetCompared(st, i, j, d, idx_name, ignored, refs) ==
    IF d.err # ""
    THEN [st EXCEPT !.old[i].df = d.df_old, !.new[j].df = d.df_new, !.err = d.err]
    ELSE DiffFrom([old  |-> [st.old EXCEPT ![i].df = d.df_old],
                   new  |-> [st.new EXCEPT ![j].df = d.df_new],
                   diff |-> Append(st.diff,
                               [sheet |-> st.old[i].name, old_pos |-> i, new_pos |-> j,
                                changed |-> d.changed, added |-> d.added,
                                deleted |-> d.deleted]),
                   err  |-> ""],
                  i + 1, idx_name, ignored, refs)

\* kn is the key setup of the new sheet (lines 52-54 or 57)
NewKeyed(st, i, j, df_old, kn, idx_name, ignored, refs) ==
    IF kn.err # ""
    THEN [st EXCEPT !.old[i].df = df_old, !.err = kn.err]
    ELSE SheetCompared(st, i, j, GetSheetDiff(df_old, kn.df, ignored, refs),
                       idx_name, ignored, refs)

\* ko is the key setup of the old sheet (lines 49-51 or 56); j is the
\* position in new_excel of self.new_excel[sheet_name]
OldKeyed(st, i, j, ko, idx_name, ignored, refs) ==
    IF ko.err # "" THEN [st EXCEPT !.err = ko.err]
    ELSE IF j = 0 THEN [st EXCEPT !.old[i].df = ko.df, !.err = "KeyError"]
    ELSE NewKeyed(st, i, j, ko.df, KeySetup(st.new[j].df, idx_name),
                  idx_name, ignored, refs)

DiffFrom(st, i, idx_name, ignored, refs) ==
    IF i > Len(st.old) \/ st.err # "" THEN st
    ELSE OldKeyed(st, i, NewSheetPos(st.old, st.new, i),
                  KeySetup(st.old[i].df, idx_name), idx_name, ignored, refs)

GetExcelDiffResult(old_wb, new_wb, idx_name, ignored, refs) ==
    DiffFrom([old |-> old_wb, new |-> new_wb, diff |-> <<>>, err |-> ""],
             1, idx_name, ignored, refs)

\* ---------------------------------------------------------- write_to_excel
\* sheet_diff_to_excel: the titles of the blocks written for one sheet
Sections(entry) ==
    (IF Empty(entry.changed) THEN <<>> ELSE <<"Changed">>) \o
    (IF Empty(entry.added)   THEN <<>> ELSE <<"Added">>) \o
    (IF Empty(entry.deleted) THEN <<>> ELSE <<"Deleted">>)

\* the worksheets of comparison.xlsx: one per sheet with a non-empty table
Worksheets(diff) ==
    LET kept == SelectSeq(diff, LAMBDA e : Sections(e) # <<>>)
    IN  [n \in 1..Len(kept) |-> [sheet |-> kept[n].sheet, sections |-> Sections(kept[n])]]

\* ------------------------------------------------------------ initial state
SeqsUpTo(S, n) == UNION {[1..k -> S] : k \in 0..n}

\* sheet names of a workbook: distinct, at least one
SheetNameSeqs ==
    {ns \in SeqsUpTo(1..MaxSheets, MaxSheets) :
        Len(ns) > 0 /\ \A i, j \in 1..Len(ns) : i # j => ns[i] # ns[j]}

Sheet(name, df) == [name |-> name, df |-> df]

\* __init__ (lines 19-28): the state after construction
Constructed(old_wb, new_wb, idx_name, refs) ==
    /\ old_excel = old_wb
    /\ new_excel = new_wb
    /\ index_name = idx_name
    /\ other_ref_cols = refs
    /\ ignored_cols = <<>>
    /\ op = "__init__"
    /\ arg = <<>>
    /\ err = ""
    /\ excel_diff = <<>>
    /\ written = <<>>

\* One sheet with the columns id, a and up to MaxRows rows in each workbook,
\* keys repeated or not; the key column is id.
RowTables ==
    {ReadExcel(<<KeyCol, "a">>, rows) :
        rows \in SeqsUpTo([id : Keys, a : Vals], MaxRows)}

InitRows ==
    \E o \in RowTables, n \in RowTables :
        Constructed(<<Sheet(1, o)>>, <<Sheet(1, n)>>, KeyCol, <<>>)

\* One sheet with one row in each workbook (key 1 in the old one, any key in
\* the new one); the data columns are any of a, b in any order; positional or
\* explicit key; b may be a reference column.
DataLayouts == {<<>>, <<"a">>, <<"b">>, <<"a", "b">>, <<"b", "a">>}

ColTables(keys) ==
    UNION {{ReadExcel(<<KeyCol>> \o cols, <<row>>) :
                row \in {r \in [{KeyCol} \cup Range(cols) -> Keys \cup Vals] :
                            /\ r[KeyCol] \in keys
                            /\ \A c \in Range(cols) : r[c] \in Vals}} :
           cols \in DataLayouts}

InitCols ==
    \E o \in ColTables({1}), n \in ColTables(Keys) :
    \E idx_name \in {DefaultIndex, KeyCol}, refs \in {<<>>, <<"b">>} :
        Constructed(<<Sheet(1, o)>>, <<Sheet(1, n)>>, idx_name, refs)

\* Workbooks of up to MaxSheets sheets in any order, one row per sheet; in the
\* new workbook only the sheet named 1 has the cell value of the old one.
BookTable(v) == ReadExcel(<<KeyCol, "a">>, <<[id |-> 1, a |-> v]>>)

InitBook ==
    \E ons \in SheetNameSeqs, nns \in SheetNameSeqs :
    \E idx_name \in {DefaultIndex, KeyCol} :
        Constructed([i \in 1..Len(ons) |-> Sheet(ons[i], BookTable(7))],
                    [j \in 1..Len(nns) |->
                        Sheet(nns[j], BookTable(IF nns[j] = 1 THEN 7 ELSE 8))],
                    idx_name, <<>>)

Init == InitRows \/ InitCols \/ InitBook

\* ------------------------------------------------------------------ actions
ColumnsOf(wb) == UNION {Range(wb[i].df.columns) : i \in 1..Len(wb)}

\* set_ignored_cols(cols)
SetIgnoredCols(cols) ==
    /\ cols # ignored_cols
    /\ ignored_cols' = cols
    /\ op' = "set_ignored_cols"
    /\ arg' = <<>>
    /\ err' = ""
    /\ excel_diff' = <<>>
    /\ UNCHANGED <<old_excel, new_excel, index_name, other_ref_cols, written>>

\* delete_ignored_and_conflicting_cols(old_excel[s], new_excel[s]) for the
\* sheet s at position i of old_excel and j of new_excel
DeleteColsDone(i, j, r) ==
    /\ old_excel[i].name = new_excel[j].name
    /\ old_excel' = [old_excel EXCEPT ![i].df = r[1]]
    /\ new_excel' = [new_excel EXCEPT ![j].df = r[2]]
    /\ op' = "delete_ignored_and_conflicting_cols"
    /\ arg' = <<i, j>>
    /\ err' = ""
    /\ excel_diff' = <<>>
    /\ UNCHANGED <<index_name, other_ref_cols, ignored_cols, written>>

DeleteCols(i, j) ==
    DeleteColsDone(i, j, DeleteIgnoredAndConflictingCols(old_excel[i].df,
                                                         new_excel[j].df,
                                                         ignored_cols))

\* the effect of get_excel_diff() returning or raising as r says
GetExcelDiffDone(r) ==
    /\ old_excel' = r.old
    /\ new_excel' = r.new
    /\ op' = "get_excel_diff"
    /\ arg' = <<>>
    /\ err' = r.err
    /\ excel_diff' = IF r.err = "" THEN r.diff ELSE <<>>
    /\ UNCHANGED <<index_name, other_ref_cols, ignored_cols, written>>

\* get_excel_diff()
GetExcelDiff ==
    GetExcelDiffDone(GetExcelDiffResult(old_excel, new_excel, index_name,
                                        ignored_cols, other_ref_cols))

\* the effect of write_to_excel() when its get_excel_diff() ends as r says
WriteToExcelDone(r) ==
    /\ old_excel' = r.old
    /\ new_excel' = r.new
    /\ op' = "write_to_excel"
    /\ arg' = <<>>
    /\ err' = r.err
    /\ excel_diff' = <<>>
    /\ written' = IF r.err = "" THEN Worksheets(r.diff) ELSE <<>>
    /\ UNCHANGED <<index_name, other_ref_cols, ignored_cols>>

\* write_to_excel()
WriteToExcel ==
    WriteToExcelDone(GetExcelDiffResult(old_excel, new_excel, index_name,
                                        ignored_cols, other_ref_cols))

Next ==
    \/ \E cols \in {<<>>} \cup {<<c>> : c \in (ColumnsOf(old_excel) \cup
                                    ColumnsOf(new_excel)) \ {KeyCol}} :
           SetIgnoredCols(cols)
    \/ \E i \in 1..Len(old_excel), j \in 1..Len(new_excel) : DeleteCols(i, j)
    \/ GetExcelDiff
    \/ WriteToExcel

Spec == Init /\ [][Next]_vars

SpecRows == InitRows /\ [][Next]_vars

SpecCols == InitCols /\ [][Next]_vars

SpecBook == InitBook /\ [][Next]_vars

\* ------------------------------------------------------------------ claims
\* The single-sheet specifications SpecRows and SpecCols compare the frame
\* old_excel[1].df with new_excel[1].df.
OldDf == old_excel[1].df
NewDf == new_excel[1].df

\* the key of every row of a frame, before or after the key setup
KeysOf(df) ==
    IF index_name = DefaultIndex \/ df.name = index_name
    THEN df.index
    ELSE [i \in 1..Len(df.rows) |-> df.rows[i][index_name]]

\* the key setup of get_excel_diff will succeed on the frame
KeyReady(df) == index_name = DefaultIndex \/ index_name \in Range(df.columns)

Unique(s) == \A i, j \in 1..Len(s) : i # j => s[i] # s[j]

Entries(df) == [i \in 1..Len(df.index) |-> <<df.index[i], df.rows[i]>>]

SameBag(s, t) == \A x \in Range(s) \cup Range(t) : Count(s, x) = Count(t, x)

\* the rows of df whose key is not a key of other, each once
RowsMissingIn(df, other) ==
    SelectSeq(Entries(df), LAMBDA e : e[1] \notin Range(other.index))

\* the row of a frame with unique keys that carries key k
RowAt(df, k) == df.rows[CHOOSE i \in 1..Len(df.index) : df.index[i] = k]

DiffStep == op' \in {"get_excel_diff", "write_to_excel"}

C2_DuplicatesInBothRaise ==
    [][(/\ DiffStep /\ KeyReady(OldDf) /\ KeyReady(NewDf)
        /\ \E k \in Range(KeysOf(OldDf)) :
              Count(KeysOf(OldDf), k) > 1 /\ Count(KeysOf(NewDf), k) > 1)
       => err' = DuplicateIndex]_vars

\* C3: when some key occurs more than once in one table and exactly once in
\* the other, get_sheet_diff raises the 'Possibly duplicate index' error: it
\* neither returns nor raises another error.
C3_OneSidedDuplicateRaises ==
    [][(/\ DiffStep /\ KeyReady(OldDf) /\ KeyReady(NewDf)
        /\ \E k \in Range(KeysOf(OldDf)) \cup Range(KeysOf(NewDf)) :
              \/ Count(KeysOf(OldDf), k) > 1 /\ Count(KeysOf(NewDf), k) = 1
              \/ Count(KeysOf(OldDf), k) = 1 /\ Count(KeysOf(NewDf), k) > 1)
       => err' = "ValueError: Possibly duplicate index"]_vars

C3_Witness ==
    /\ op = "get_excel_diff" /\ err = "ValueError: Possibly duplicate index"
    /\ OldDf.name = KeyCol /\ NewDf.name = KeyCol
    /\ OldDf.index = <<1, 1>>
    /\ NewDf.index = <<1>>

\* C4 (as stated): whenever get_sheet_diff returns, 'added' holds exactly the
\* rows of the new table whose key is not in the old table and 'deleted'
\* exactly the rows of the old table whose key is not in the new table, each
\* such row once, also when such a key is repeated in its table.
C4_AddedDeletedEachOnce ==
    (op = "get_excel_diff" /\ err = "") =>
        /\ SameBag(Entries(excel_diff[1].added), RowsMissingIn(NewDf, OldDf))
        /\ SameBag(Entries(excel_diff[1].deleted), RowsMissingIn(OldDf, NewDf))

C7_SelfCompareEmpty ==
    [][(/\ DiffStep /\ KeyReady(OldDf) /\ KeyReady(NewDf)
        /\ OldDf = NewDf
        /\ Unique(KeysOf(OldDf)))
       => /\ err' = ""
          /\ op' = "get_excel_diff" =>
                /\ Len(excel_diff'[1].changed.index) = 0
                /\ Len(excel_diff'[1].changed.columns) = 0
                /\ Len(excel_diff'[1].added.index) = 0
                /\ Len(excel_diff'[1].deleted.index) = 0
          /\ op' = "write_to_excel" => written' = <<>>]_vars

C7_Witness ==
    /\ op = "get_excel_diff" /\ err = ""
    /\ OldDf = NewDf
    /\ OldDf.index = <<1, 2>>
    /\ OldDf.columns = <<"a">>
    /\ Empty(excel_diff[1].changed)
    /\ Empty(excel_diff[1].added)
    /\ Empty(excel_diff[1].deleted)

\* C8: the three key sets that get_sheet_diff derives from the outer join
\* (both, old only, new only) are pairwise disjoint and their union is the
\* union of the keys of the old and of the new table.
C8_KeySetsPartition ==
    (op \in {"get_excel_diff", "write_to_excel"} /\ err \in {"", DuplicateIndex}) =>
        LET df_merged == Merge(OldDf, NewDf)
            both     == Range(IndexWhere(df_merged, "both"))
            old_only == Range(IndexWhere(df_merged, "left_only"))
            new_only == Range(IndexWhere(df_merged, "right_only"))
        IN  /\ both \cap old_only = {}
            /\ both \cap new_only = {}
            /\ old_only \cap new_only = {}
            /\ both \cup old_only \cup new_only =
                   Range(OldDf.index) \cup Range(NewDf.index)
            /\ both = Range(OldDf.index) \cap Range(NewDf.index)
            /\ (op = "get_excel_diff" /\ err = "") =>
                  /\ Range(excel_diff[1].added.index) = new_only
                  /\ Range(excel_diff[1].deleted.index) = old_only

C8_Witness ==
    /\ op = "get_excel_diff" /\ err = ""
    /\ OldDf.index = <<1, 2>>
    /\ NewDf.index = <<2>>
    /\ Range(IndexWhere(Merge(OldDf, NewDf), "both")) = {2}
    /\ Range(IndexWhere(Merge(OldDf, NewDf), "left_only")) = {1}
    /\ Range(excel_diff[1].deleted.index) = {1}

\* C9: after delete_ignored_and_conflicting_cols(df1, df2) both tables have
\* the same column set: the columns that were in both tables, minus the
\* ignored columns.
C9_ColumnsReconciled ==
    [][op' = "delete_ignored_and_conflicting_cols" =>
          LET df1 == old_excel[arg'[1]].df
              df2 == new_excel[arg'[2]].df
              kept == (Range(df1.columns) \cap Range(df2.columns)) \ Range(ignored_cols)
          IN  /\ Range(old_excel'[arg'[1]].df.columns) = kept
              /\ Range(new_excel'[arg'[2]].df.columns) = kept]_vars

C9_Witness ==
    /\ op = "delete_ignored_and_conflicting_cols"
    /\ arg = <<1, 1>>
    /\ ignored_cols = <<"a">>
    /\ OldDf.name = "" /\ NewDf.name = ""
    /\ OldDf.columns = <<KeyCol, "b">>
    /\ NewDf.columns = <<KeyCol, "b">>
    /\ DOMAIN OldDf.rows[1] = {KeyCol, "b"}

\* C10 (as stated): after a successful get_excel_diff, a second call with the
\* same configuration also succeeds and returns the same result; so does the
\* get_excel_diff call that write_to_excel makes.
C10_Repeatable ==
    [][(op = "get_excel_diff" /\ err = "" /\ DiffStep) =>
          /\ err' = ""
          /\ op' = "get_excel_diff" => excel_diff' = excel_diff]_vars

====
